---- MODULE Spec2Model ----
(***************************************************************************)
(* Badminton elimination (src/badminton_elimination.py).                   *)
(*                                                                         *)
(* A Division holds the team records and one directed graph G.  The query  *)
(* is_eliminated(teamID, solver) runs a trivial check, rebuilds G with     *)
(* create_network and hands it to one of two solvers.  The two library     *)
(* calls are modelled by what they compute:                                *)
(*   - networkx maximum_flow: an error when 'S' or 'T' is no node of the   *)
(*     graph; otherwise the maximum flow of the residual network, which    *)
(*     keeps only the edges of positive capacity and gives an edge without *)
(*     a capacity three times the sum of the finite capacities (or 1);     *)
(*     by max-flow/min-cut the value is that of a minimum S-T cut;         *)
(*   - the picos/cvxopt linear program: its optimum F, which by LP duality *)
(*     is the minimum cut of the network with the uncapacitated edges      *)
(*     unbounded (cvxopt's rounding error stays far below the 0.1 used by  *)
(*     the comparison).                                                    *)
(* The fields name and losses of a Team are never read by a query and are  *)
(* left out.                                                               *)
(***************************************************************************)
EXTENDS Integers, Sequences, FiniteSets, TLC

VARIABLES
  teams,            \* Division.teams: team ID -> Team
  G,                \* Division.G
  saturated_edges,  \* the dictionary create_network returned to the last query
  call,             \* <<teamID, solver>> of the last query, <<>> before any
  result,           \* what the last query returned or raised
  steps,            \* the steps the last query ran, in order
  stale             \* whether G held another candidate's network when the
                    \* last query began

vars == <<teams, G, saturated_edges, call, result, steps, stale>>

\* Bounds of the enumerated divisions: the wins of a team and the games
\* left between two teams.
MaxWins == 2
MaxGames == 1

\* The sizes of the enumerated divisions; the four-team division of the
\* scenario is added to them.
TeamCounts == {2, 3}

NetworkFlows == "Network Flows"
LinearProgramming == "Linear Programming"
Solvers == {NetworkFlows, LinearProgramming}

----------------------------------------------------------------------------
\* sum over the values of a list or dictionary

RECURSIVE SumFun(_, _)
SumFun(f, D) ==
  IF D = {} THEN 0
  ELSE LET d == CHOOSE x \in D : TRUE IN f[d] + SumFun(f, D \ {d})

----------------------------------------------------------------------------
\* Team records

Team(wins, remaining, against) ==
  [wins |-> wins, remaining |-> remaining, against |-> against]

\* Team.get_against: self.against[other_team], ValueError when the list has
\* no such index.
get_against(team, other_team) ==
  IF other_team \in DOMAIN team.against
  THEN [ok |-> TRUE, num |-> team.against[other_team]]
  ELSE [ok |-> FALSE, num |-> 0]

get_team_IDs(tms) == DOMAIN tms

----------------------------------------------------------------------------
\* The directed graph self.G: a set of edges, each with an optional capacity
\* attribute.  A node is in the graph when an edge touches it (the graph is
\* only ever filled by add_edge).

S == <<"S", 0, 0>>
T == <<"T", 0, 0>>
TeamNode(i) == <<"team", i, i>>
PairNode(pair) == <<"pair", pair[1], pair[2]>>

Edge(u, v, hascap, capacity) ==
  [u |-> u, v |-> v, hascap |-> hascap, capacity |-> capacity]

Nodes(g) == {e.u : e \in g} \cup {e.v : e \in g}

\* nx.DiGraph()
EmptyGraph == {}

\* DiGraph.add_edge(u, v, capacity=c): a new edge, or an update of the
\* attributes of the edge already there.
add_edge_capacity(g, u, v, c) ==
  {e \in g : ~(e.u = u /\ e.v = v)} \cup {Edge(u, v, TRUE, c)}

\* DiGraph.add_edge(u, v): a new edge without attributes; an edge already
\* there keeps the attributes it has.
add_edge(g, u, v) ==
  IF \E e \in g : e.u = u /\ e.v = v THEN g ELSE g \cup {Edge(u, v, FALSE, 0)}

----------------------------------------------------------------------------
\* Division.max_allowed

\* Mutants of max_allowed: the two teams swapped; the remaining games of
\* team1 forgotten.
max_allowed_swapped(tms, t1, t2) ==
  tms[t2].wins + tms[t2].remaining - tms[t1].wins - 1

max_allowed_no_remaining(tms, t1, t2) ==
  tms[t1].wins - tms[t2].wins - 1

max_allowed(tms, t1, t2) ==
  tms[t1].wins + tms[t1].remaining - tms[t2].wins - 1

----------------------------------------------------------------------------
\* Division.create_network

RECURSIVE Ascending(_)
Ascending(ids) ==
  IF ids = {} THEN <<>>
  ELSE LET m == CHOOSE x \in ids : \A y \in ids : x <= y
       IN <<m>> \o Ascending(ids \ {m})

\* remaining_teams = dict(self.teams); remaining_teams.pop(teamID): the keys
\* in insertion order, which readDivision makes the ascending IDs.
remaining_teams(tms, teamID) == Ascending(DOMAIN tms \ {teamID})

\* Mutant of combinations: every ordered pair of distinct elements, as
\* itertools.permutations(seq, 2) gives them.
permutations(s) ==
  LET idx == {q \in (1..Len(s)) \X (1..Len(s)) : q[1] # q[2]}
      order == Ascending({q[1] * (Len(s) + 1) + q[2] : q \in idx})
  IN [k \in 1..Len(order) |->
        <<s[order[k] \div (Len(s) + 1)], s[order[k] % (Len(s) + 1)]>>]

\* itertools.combinations(seq, 2)
RECURSIVE combinations(_)
combinations(s) ==
  IF Len(s) < 2 THEN <<>>
  ELSE [k \in 1..(Len(s) - 1) |-> <<s[1], s[k + 1]>>] \o combinations(Tail(s))

\* Mutant of ResetGraph: the graph of the previous query is kept.
KeepGraph(g) == g

\* The graph create_network starts from: "Reset the graph".
ResetGraph(g) == EmptyGraph

\* First loop: saturated_edges[pair] = num and the edge S -> pair.  A missing
\* head-to-head entry raises ValueError and leaves the graph as built so far.
RECURSIVE FirstLayer(_, _, _, _)
FirstLayer(tms, g, sat, pairs) ==
  IF pairs = <<>> THEN [ok |-> TRUE, G |-> g, sat |-> sat]
  ELSE LET pair == Head(pairs)
           r == get_against(tms[pair[1]], pair[2])
       IN IF ~r.ok THEN [ok |-> FALSE, G |-> g, sat |-> sat]
          ELSE FirstLayer(tms,
                          add_edge_capacity(g, S, PairNode(pair), r.num),
                          Append(sat, [pair |-> pair, num |-> r.num]),
                          Tail(pairs))

\* Second loop: pair -> pair[0] and pair -> pair[1], no capacity.
RECURSIVE SecondLayer(_, _)
SecondLayer(g, sat) ==
  IF sat = <<>> THEN g
  ELSE LET pair == Head(sat).pair
       IN SecondLayer(add_edge(add_edge(g, PairNode(pair), TeamNode(pair[1])),
                               PairNode(pair), TeamNode(pair[2])),
                      Tail(sat))

\* Third loop: team -> T with capacity max_allowed(teamID, team).
RECURSIVE ThirdLayer(_, _, _, _)
ThirdLayer(tms, g, teamID, rem) ==
  IF rem = <<>> THEN g
  ELSE ThirdLayer(tms,
                  add_edge_capacity(g, TeamNode(Head(rem)), T,
                                    max_allowed(tms, teamID, Head(rem))),
                  teamID, Tail(rem))

\* create_network(teamID): the new graph and the saturated edges, or the
\* ValueError of get_against.
create_network(tms, g, teamID) ==
  LET rem == remaining_teams(tms, teamID)
      first == FirstLayer(tms, ResetGraph(g), <<>>, combinations(rem))
  IN IF ~first.ok THEN [ok |-> FALSE, G |-> first.G, sat |-> <<>>]
     ELSE [ok |-> TRUE,
           G |-> ThirdLayer(tms, SecondLayer(first.G, first.sat), teamID, rem),
           sat |-> first.sat]

----------------------------------------------------------------------------
\* The two library solves

RECURSIVE SumCapacity(_)
SumCapacity(edges) ==
  IF edges = {} THEN 0
  ELSE LET e == CHOOSE x \in edges : TRUE
       IN e.capacity + SumCapacity(edges \ {e})

\* The capacity of the cut that puts the nodes `side` with S: the sum over the
\* edges leaving the side, an uncapacitated edge counting `inf`.
CutCapacity(edges, side, inf) ==
  LET out == {e \in edges : e.u \in side /\ e.v \notin side}
  IN SumCapacity({e \in out : e.hascap}) +
     inf * Cardinality({e \in out : ~e.hascap})

MinCut(edges, inner, inf) ==
  LET cuts == {CutCapacity(edges, side \cup {S}, inf) : side \in SUBSET inner}
  IN CHOOSE m \in cuts : \A c \in cuts : m <= c

\* networkx build_residual_network: only the edges of positive capacity (an
\* edge without the attribute is infinite), self loops excluded.
ResidualEdges(g) == {e \in g : e.u # e.v /\ (~e.hascap \/ e.capacity > 0)}

\* networkx: "simulate infinity with three times the sum of the finite edge
\* capacities or any positive value if the sum is zero".
ResidualInf(g) ==
  LET total == 3 * SumCapacity({e \in ResidualEdges(g) : e.hascap})
  IN IF total = 0 THEN 1 ELSE total

\* nx.algorithms.flow.maximum_flow(self.G, 'S', 'T'): the flow value.
maximum_flow(g) ==
  MinCut(ResidualEdges(g), Nodes(g) \ {S, T}, ResidualInf(g))

\* The optimum F of the linear program: maximum flow with 0 <= f <= capacity
\* on the capacitated edges and only f >= 0 on the others.  A value that
\* reaches Unbounded means the program has no finite optimum.
Unbounded(g) == 1 + SumCapacity({e \in g : e.hascap})

lp_optimum(g) == MinCut(g, Nodes(g) \ {S, T}, Unbounded(g))

\* games_remaining = sum([x for x in saturated_edges.values()])
RECURSIVE games_remaining(_)
games_remaining(sat) ==
  IF sat = <<>> THEN 0 ELSE Head(sat).num + games_remaining(Tail(sat))

----------------------------------------------------------------------------
\* Division.network_flows: the verdict and the steps taken.

network_flows(g, sat) ==
  IF S \notin Nodes(g) \/ T \notin Nodes(g)
  THEN [result |-> "NetworkXError", steps |-> <<"maximum_flow">>]
  ELSE [result |-> IF maximum_flow(g) = games_remaining(sat)
                   THEN "False" ELSE "True",
        steps |-> <<"maximum_flow">>]

\* Division.linear_programming: the capacity scan returns True on the first
\* negative capacity; G.successors('S') raises when S is no node; the solve
\* fails on an unbounded program.
linear_programming(g, sat) ==
  IF \E e \in g : e.hascap /\ e.capacity < 0
  THEN [result |-> "True", steps |-> <<"lp_capacities">>]
  ELSE IF S \notin Nodes(g)
  THEN [result |-> "NetworkXError", steps |-> <<"lp_capacities">>]
  ELSE IF lp_optimum(g) >= Unbounded(g)
  THEN [result |-> "SolutionFailure", steps |-> <<"lp_capacities", "lp_solve">>]
  ELSE [result |-> IF lp_optimum(g) = games_remaining(sat)
                   THEN "False" ELSE "True",
        steps |-> <<"lp_capacities", "lp_solve">>]

----------------------------------------------------------------------------
\* Division.is_eliminated

\* Mutant of TrivialFlag: the comparison turned round.
TrivialFlag_inverted(tms, teamID) ==
  \E other \in DOMAIN tms \ {teamID} :
     tms[teamID].wins + tms[teamID].remaining > tms[other].wins

\* flag1 after the loop over the other teams.
TrivialFlag(tms, teamID) ==
  \E other \in DOMAIN tms \ {teamID} :
     tms[teamID].wins + tms[teamID].remaining < tms[other].wins

\* The whole query: graph and saturated edges it leaves, its result and the
\* steps it ran.
is_eliminated(tms, g, teamID, solver) ==
  LET flag1 == TrivialFlag(tms, teamID)
      net == create_network(tms, g, teamID)
      solved == IF solver = NetworkFlows THEN network_flows(net.G, net.sat)
                ELSE IF solver = LinearProgramming
                     THEN linear_programming(net.G, net.sat)
                ELSE [result |-> "False", steps |-> <<>>]
  IN IF ~net.ok
     THEN [G |-> net.G, sat |-> net.sat, result |-> "ValueError",
           steps |-> <<"trivial_check", "create_network">>]
     ELSE IF flag1
     THEN [G |-> net.G, sat |-> net.sat, result |-> "True",
           steps |-> <<"trivial_check", "create_network">>]
     ELSE [G |-> net.G, sat |-> net.sat, result |-> solved.result,
           steps |-> <<"trivial_check", "create_network">> \o solved.steps]

----------------------------------------------------------------------------
\* Divisions

TeamIDs(n) == 0..(n - 1)

UnorderedPairs(n) == {p \in TeamIDs(n) \X TeamIDs(n) : p[1] < p[2]}

\* The head-to-head row of team i, `width` entries long.
AgainstRow(games, i, width) ==
  [j \in 0..(width - 1) |->
     IF i = j THEN 0 ELSE IF i < j THEN games[<<i, j>>] ELSE games[<<j, i>>]]

\* A division of n teams with the given wins and symmetric head-to-head
\* counts; every row has `width` entries (n in a complete file) and
\* remaining is the sum of the row.
MakeDivision(n, wins, games, width) ==
  [i \in TeamIDs(n) |->
     LET row == AgainstRow(games, i, width)
     IN Team(wins[i], SumFun(row, DOMAIN row), row)]

\* The four-team division A, B, C, D.
FourTeams ==
  (0 :> Team(83, 8, (0 :> 0) @@ (1 :> 1) @@ (2 :> 6) @@ (3 :> 1))) @@
  (1 :> Team(80, 9, (0 :> 1) @@ (1 :> 0) @@ (2 :> 1) @@ (3 :> 7))) @@
  (2 :> Team(78, 10, (0 :> 6) @@ (1 :> 1) @@ (2 :> 0) @@ (3 :> 3))) @@
  (3 :> Team(77, 10, (0 :> 1) @@ (1 :> 7) @@ (2 :> 3) @@ (3 :> 0)))

\* The two-team division A(5, 0), B(5, 0).
TwoTeamsTied ==
  (0 :> Team(5, 0, (0 :> 0) @@ (1 :> 0))) @@
  (1 :> Team(5, 0, (0 :> 0) @@ (1 :> 0)))

----------------------------------------------------------------------------
\* The state machine: a division is loaded, then queried any number of times.

Init ==
  /\ \/ \E n \in TeamCounts :
          \E wins \in [TeamIDs(n) -> 0..MaxWins] :
            \E games \in [UnorderedPairs(n) -> 0..MaxGames] :
              \E width \in {n - 1, n} :
                teams = MakeDivision(n, wins, games, width)
     \/ teams = FourTeams
     \/ teams = TwoTeamsTied
  /\ G = EmptyGraph
  /\ saturated_edges = <<>>
  /\ call = <<>>
  /\ result = "none"
  /\ steps = <<>>
  /\ stale = FALSE

IsEliminated(teamID, solver) ==
  LET q == is_eliminated(teams, G, teamID, solver)
  IN /\ G' = q.G
     /\ saturated_edges' = q.sat
     /\ call' = <<teamID, solver>>
     /\ result' = q.result
     /\ steps' = q.steps
     /\ stale' = (call # <<>> /\ call[1] # teamID /\ G # EmptyGraph)
     /\ UNCHANGED teams

Next == \E teamID \in get_team_IDs(teams) : \E solver \in Solvers :
          IsEliminated(teamID, solver)

Spec == Init /\ [][Next]_vars

----------------------------------------------------------------------------
\* Vocabulary of the properties

Queried == call # <<>>
Candidate == call[1]
Solver == call[2]
Others == DOMAIN teams \ {Candidate}
Verdicts == {"True", "False"}

\* Non-negative counts, complete rows, symmetric head-to-head matrix.
WellFormed(tms) ==
  \A i \in DOMAIN tms :
    /\ tms[i].wins >= 0
    /\ tms[i].remaining >= 0
    /\ DOMAIN tms[i].against = DOMAIN tms
    /\ \A j \in DOMAIN tms :
         /\ tms[i].against[j] >= 0
         /\ DOMAIN tms[j].against = DOMAIN tms => tms[i].against[j] = tms[j].against[i]

\* remaining is the sum of the head-to-head counts.
Consistent(tms) ==
  \A i \in DOMAIN tms :
    tms[i].remaining = SumFun(tms[i].against, DOMAIN tms[i].against)

\* Some other team already has more wins than the candidate can reach.
TriviallyBehind ==
  \E i \in Others :
    teams[Candidate].wins + teams[Candidate].remaining < teams[i].wins

\* Some sink capacity of the candidate's network is negative.
NegativeSinkCapacity ==
  \E i \in Others :
    teams[Candidate].wins + teams[Candidate].remaining - teams[i].wins - 1 < 0

----------------------------------------------------------------------------
\* C1 (agreement law): on a well-formed division, a query of a team under one
\* solver followed by the query of the same team under the other solver
\* returns the same verdict whenever both return one.
C1_Agreement ==
  [][(/\ WellFormed(teams) /\ call # <<>> /\ call' # <<>>
      /\ call'[1] = call[1] /\ call'[2] # call[2]
      /\ result \in Verdicts /\ result' \in Verdicts)
     => result' = result]_vars

----------------------------------------------------------------------------
\* The definition of elimination, by enumeration: the outcomes of all the
\* remaining games give each unordered pair <<i, j>> the number of its games
\* that i wins; j wins the others.

Outcomes(tms) ==
  LET ids == DOMAIN tms
      pairs == {p \in ids \X ids : p[1] < p[2]}
  IN {o \in [pairs -> 0..MaxGames] :
        \A p \in pairs : o[p] <= tms[p[1]].against[p[2]]}

FinalWins(tms, o, i) ==
  LET ids == DOMAIN tms
  IN tms[i].wins
     + SumFun([j \in ids |-> IF i < j THEN o[<<i, j>>] ELSE 0], ids)
     + SumFun([j \in ids |-> IF j < i THEN tms[j].against[i] - o[<<j, i>>] ELSE 0], ids)

CanFinishFirst(tms, teamID) ==
  \E o \in Outcomes(tms) :
    \A i \in DOMAIN tms \ {teamID} :
      FinalWins(tms, o, teamID) > FinalWins(tms, o, i)

\* C2 (verdict matches the definition): on a well-formed division whose
\* remaining counts are the sums of the head-to-head counts, the Network
\* Flows query returns True exactly when no outcome of the remaining games
\* lets the candidate finish with strictly more wins than every other team.
\* Stated for the queries that return a verdict, on the divisions whose
\* head-to-head counts the enumeration of outcomes covers.
C2_VerdictMatchesDefinition ==
  (/\ Queried /\ Solver = NetworkFlows /\ result \in Verdicts
   /\ WellFormed(teams) /\ Consistent(teams)
   /\ \A i \in DOMAIN teams : \A j \in DOMAIN teams :
        teams[i].against[j] <= MaxGames)
  => ((result = "True") <=> ~CanFinishFirst(teams, Candidate))

----------------------------------------------------------------------------
\* C3 (trivial elimination): on a well-formed division, a candidate whose
\* wins plus remaining games are fewer than the wins of some other team is
\* reported eliminated, whichever solver is selected.
C3_TrivialElimination ==
  (Queried /\ WellFormed(teams) /\ TriviallyBehind) => result = "True"

C3_Witness ==
  /\ Queried /\ WellFormed(teams) /\ TriviallyBehind
  /\ Solver = NetworkFlows /\ result = "True"
  /\ Cardinality(DOMAIN teams) = 3

----------------------------------------------------------------------------
\* C4 (negative sink capacity short-circuit): under either solver, a
\* candidate with a negative max_allowed against some other team is reported
\* eliminated, and neither the max-flow nor the LP solve step runs.  Stated
\* for the divisions of three teams or more, whose network has a source.
C4_NegativeCapacityShortCircuit ==
  (/\ Queried /\ WellFormed(teams) /\ NegativeSinkCapacity
   /\ Cardinality(DOMAIN teams) >= 3)
  => /\ result = "True"
     /\ \A k \in DOMAIN steps : steps[k] \notin {"maximum_flow", "lp_solve"}

----------------------------------------------------------------------------
\* C5 (idempotence, no hidden state): whatever queries came before, a query
\* returns what the same query returns on the freshly loaded division, the
\* graph it leaves is the network of its own candidate, and no query changes
\* the team records.
C5_Idempotence ==
  /\ [](Queried =>
          /\ result = is_eliminated(teams, EmptyGraph, Candidate, Solver).result
          /\ G = create_network(teams, EmptyGraph, Candidate).G)
  /\ [][teams' = teams]_vars

C5_Witness ==
  /\ Queried /\ stale /\ WellFormed(teams)
  /\ Cardinality(DOMAIN teams) = 3
  /\ result = "False"
  /\ \E e \in G : e.u = S /\ e.capacity > 0

----------------------------------------------------------------------------
\* The candidate has no game left and strictly more wins than every other team.
MostWinsNoGames ==
  /\ teams[Candidate].remaining = 0
  /\ \A i \in Others : teams[Candidate].wins > teams[i].wins

\* The games team i still has against the teams other than the candidate.
GamesAmongOthers(i) ==
  SumFun([j \in Others |-> IF j = i THEN 0 ELSE teams[i].against[j]], Others)

\* C6 as stated (self-consistency): on a well-formed division, a team with
\* remaining = 0 and the most wins is never reported eliminated, under either
\* solver, whatever games the other teams still have among themselves.
C6_SelfConsistency_Original ==
  (Queried /\ WellFormed(teams) /\ MostWinsNoGames) => result # "True"

\* C6 as amended: on a well-formed division, a team with remaining = 0 whose
\* wins exceed, for every other team, that team's wins plus the games it
\* still has against the other non-candidate teams, is never reported
\* eliminated under either solver; with three teams or more the query
\* returns False.
C6_SelfConsistency ==
  (/\ Queried /\ WellFormed(teams)
   /\ teams[Candidate].remaining = 0
   /\ \A i \in Others : teams[Candidate].wins > teams[i].wins + GamesAmongOthers(i))
  => /\ result # "True"
     /\ Cardinality(DOMAIN teams) >= 3 => result = "False"

C6_Witness ==
  /\ Queried /\ WellFormed(teams)
  /\ teams[Candidate].remaining = 0
  /\ \A i \in Others : teams[Candidate].wins > teams[i].wins + GamesAmongOthers(i)
  /\ \E i \in Others : GamesAmongOthers(i) > 0
  /\ result = "False"

----------------------------------------------------------------------------
\* C7 as stated (four-team scenario): in the division A, B, C, D the query
\* returns True for C and D and False for A and B, under both solvers.
C7_FourTeams_Original ==
  (Queried /\ teams = FourTeams)
  => /\ Candidate \in {2, 3} => result = "True"
     /\ Candidate \in {0, 1} => result = "False"

\* C7 as amended: in the division A, B, C, D the query returns False for
\* every one of A, B, C and D, under both solvers.
C7_FourTeams ==
  (Queried /\ teams = FourTeams) => result = "False"

C7_Witness ==
  /\ Queried /\ teams = FourTeams
  /\ Candidate = 2 /\ Solver = LinearProgramming /\ result = "False"
  /\ steps[Len(steps)] = "lp_solve"

----------------------------------------------------------------------------
\* C8 (two-team scenario): in the division A(5, 0), B(5, 0) the query returns
\* False for A and for B under both solvers, and a query on any well-formed
\* two-team division returns a verdict.
C8_TwoTeams ==
  /\ (Queried /\ teams = TwoTeamsTied) => result = "False"
  /\ (Queried /\ WellFormed(teams) /\ Cardinality(DOMAIN teams) = 2)
       => result \in Verdicts

----------------------------------------------------------------------------
\* C9 (step ordering): when the trivial check fires, the query returns True
\* with no network-construction step and no solver step, so that a failure
\* inside the builder cannot change the verdict.
C9_TrivialCheckFirst ==
  (Queried /\ TriviallyBehind)
  => /\ result = "True"
     /\ steps = <<"trivial_check">>

----------------------------------------------------------------------------
\* The network the candidate's query is to build, edge by edge.
OtherPairs == {p \in Others \X Others : p[1] < p[2]}

ExpectedNetwork ==
  {Edge(S, PairNode(p), TRUE, teams[p[1]].against[p[2]]) : p \in OtherPairs}
  \cup {Edge(PairNode(p), TeamNode(p[1]), FALSE, 0) : p \in OtherPairs}
  \cup {Edge(PairNode(p), TeamNode(p[2]), FALSE, 0) : p \in OtherPairs}
  \cup {Edge(TeamNode(i), T, TRUE,
             teams[Candidate].wins + teams[Candidate].remaining
               - teams[i].wins - 1) : i \in Others}

\* C10 (network shape): after a query on a well-formed division the candidate
\* is no node of the graph; the graph holds exactly, for every unordered pair
\* of other teams, the edge S -> pair with the pair's remaining games as
\* capacity and the two uncapacitated edges pair -> team, and for every other
\* team the edge team -> T of capacity wins + remaining of the candidate
\* minus the team's wins minus 1; the saturated edges have exactly those
\* pairs as keys with the capacities of the S edges as values.
C10_NetworkShape ==
  (Queried /\ WellFormed(teams))
  => /\ TeamNode(Candidate) \notin Nodes(G)
     /\ G = ExpectedNetwork
     /\ Len(saturated_edges) = Cardinality(OtherPairs)
     /\ {saturated_edges[k].pair : k \in DOMAIN saturated_edges} = OtherPairs
     /\ \A k \in DOMAIN saturated_edges :
          LET p == saturated_edges[k].pair
          IN /\ saturated_edges[k].num = teams[p[1]].against[p[2]]
             /\ saturated_edges[k].num = teams[p[2]].against[p[1]]
             /\ Edge(S, PairNode(p), TRUE, saturated_edges[k].num) \in G

C10_Witness ==
  /\ Queried /\ WellFormed(teams) /\ stale
  /\ Cardinality(DOMAIN teams) = 3
  /\ \E k \in DOMAIN saturated_edges : saturated_edges[k].num = 0
  /\ G = ExpectedNetwork

====
